---- MODULE Spec2Model ----
\* A model of src/core/channel.py: the dotfile entries (plain, encrypted file,
\* encrypted directory), their symlink / working-copy / blob state machine, and
\* the Channel that scans and bulk-operates on them.
\*
\* The filesystem is modelled by three places:
\*   home : the object at  ~/<name>            (Path.home() / name, the link_path)
\*   chan : the channel directory              (files and directories by file name)
\*   work : the object at  <decrypted>/<channel>/<name>  (the working copy)
\* A file name is kept as its '#'-separated segments: the first segment
\* (name), the numeric segments after it (meta) and the literal segments after
\* those (ext), so that "vimrc#IzjOuV4h#20220121162145#F#CRYPT" is
\* [name |-> "vimrc", meta |-> <<h, ts>>, ext |-> <<"F", "CRYPT">>].
EXTENDS Integers, Sequences, FiniteSets, TLC

\* ---------------------------------------------------------------- bounds
MaxData == 2
HashSpace == 2
MaxTime == 1

\* The logical name the single-entry scenarios use.
Names == {"a"}
Data == 0..MaxData
Times == 0..MaxTime

\* ---------------------------------------------------------------- values
NoFile == [t |-> "none"]
File(c) == [t |-> "file", data |-> c]
Dir(c) == [t |-> "dir", data |-> c]
Link(to) == [t |-> "link", to |-> to]

NoHash == -1
FileName(name, meta, ext) == [name |-> name, meta |-> meta, ext |-> ext]
PlainName(n) == FileName(n, <<>>, <<>>)
NoName == PlainName("")
\* str.split('#') of a name: "a#x" is the one name in play that holds a '#'.
Split(n) == IF n = "a#x" THEN <<"a", "x">> ELSE <<n>>
\* len(path.name.split('#')) and the i-th segment
NSeg(fn) == Len(Split(fn.name)) + Len(fn.meta) + Len(fn.ext)
Seg(fn, i) ==
    LET k == Len(Split(fn.name)) IN
    IF i <= k THEN Split(fn.name)[i]
    ELSE IF i - k <= Len(fn.meta) THEN fn.meta[i - k]
    ELSE fn.ext[i - k - Len(fn.meta)]
\* str(path.name): the segments joined by '#'
RECURSIVE JoinNum(_)
JoinNum(s) == IF s = <<>> THEN "" ELSE "#" \o ToString(Head(s)) \o JoinNum(Tail(s))
RECURSIVE JoinStr(_)
JoinStr(s) == IF s = <<>> THEN "" ELSE "#" \o Head(s) \o JoinStr(Tail(s))
Join(fn) == fn.name \o JoinNum(fn.meta) \o JoinStr(fn.ext)
\* datetime.strptime(ts, TIMESTAMP_FORMAT) of the third segment returns: the
\* segment is a timestamp, which no name part, hash or literal segment is.
BadTimestamp == -1
strptime(fn) ==
    /\ Len(Split(fn.name)) = 1
    /\ Len(fn.meta) >= 2
    /\ fn.meta[2] >= 0

\* core.utils.get_hash: a deterministic short fingerprint of a file's or a
\* directory tree's content; distinct contents may collide.
get_hash(item) == item.data % HashSpace

\* core.ENCRYPTED_FILE_FORMAT / ENCRYPTED_DIR_FORMAT: <name>#<md5>#<ts>#<K>#CRYPT
ENCRYPTED_FILE_FORMAT(name, ts, md5) == FileName(name, <<md5, ts>>, <<"F", "CRYPT">>)
ENCRYPTED_DIR_FORMAT(name, ts, md5) == FileName(name, <<md5, ts>>, <<"D", "CRYPT">>)

\* str.endswith on the '#'-separated segments of a file name
EndsWith(fn, suffix) ==
    /\ Len(fn.ext) >= Len(suffix)
    /\ SubSeq(fn.ext, Len(fn.ext) - Len(suffix) + 1, Len(fn.ext)) = suffix

\* core.SCAN_DIR_BLACKLIST, the fixed scan exclusion list, and
\* state.core.check_dirs, the configured check set.
SCAN_DIR_BLACKLIST == {".git"}
check_dirs == {".config"}
\* PurePath.parent and PurePath.name of a path relative to the channel root
\* ("" is the root): ".config/a" and ".git/a" are the nested paths in play.
Parent(n) ==
    IF n = ".config/a" THEN ".config" ELSE IF n = ".git/a" THEN ".git" ELSE ""
BaseName(n) == IF Parent(n) = "" THEN n ELSE "a"

CONFLICT_EXT == <<"CONFLICT">>
ENCRYPTED_DIR_EXT == <<"D", "CRYPT">>
ENCRYPTED_FILE_EXT == <<"F", "CRYPT">>
CONFLICT_DIR_EXT == <<"D", "CRYPT", "CONFLICT">>
CONFLICT_FILE_EXT == <<"F", "CRYPT", "CONFLICT">>

VARIABLES home, chan, work, tmp, dotfiles, conflicts, scanned, held, now, last

vars == <<home, chan, work, tmp, dotfiles, conflicts, scanned, held, now, last>>

\* The filesystem as one value, handed to and returned by the operations. tmp
\* holds the temporary artifacts ("tar": the packed archive, "file": the scratch
\* decrypted file, "dir": the scratch extraction directory) that the operation
\* in progress has created and not removed.
FS == [home |-> home, chan |-> chan, work |-> work, tmp |-> {}]

\* ------------------------------------------------------- filesystem helpers
\* A channel directory entry: a file (plain, or an encrypted blob whose
\* plaintext is data and which decrypts under the process key iff ok) or a
\* plain directory.
ChanFile(fn, c, ok) == [fn |-> fn, t |-> "file", data |-> c, ok |-> ok]
ChanDir(fn, c) == [fn |-> fn, t |-> "dir", data |-> c, ok |-> FALSE]

ChanAt(fs, fn) == {e \in fs.chan : e.fn = fn}
ChanExists(fs, fn) == ChanAt(fs, fn) # {}
ChanEntry(fs, fn) == CHOOSE e \in fs.chan : e.fn = fn
ChanRemove(fs, fn) == [fs EXCEPT !.chan = {e \in fs.chan : e.fn # fn}]
ChanWrite(fs, e) == [fs EXCEPT !.chan = {x \in fs.chan : x.fn # e.fn} \cup {e}]

\* The plain object at channel/<name>, as a home/work-style item.
ChanItem(fs, n) ==
    IF ChanExists(fs, PlainName(n))
    THEN LET e == ChanEntry(fs, PlainName(n)) IN [t |-> e.t, data |-> e.data]
    ELSE NoFile

\* What a symlink target names: the channel source, the working copy, an
\* existing foreign file, or a missing foreign path.
Target(fs, n, to) ==
    CASE to = "chan" -> ChanItem(fs, n)
      [] to = "work" -> fs.work[n]
      [] to = "ext" -> File(0)
      [] OTHER -> NoFile

\* Path.is_symlink / Path.exists / Path.is_file / Path.is_dir on ~/<name>
\* (all but is_symlink follow the link).
HomeAt(fs, n) == IF n \in DOMAIN fs.home THEN fs.home[n] ELSE NoFile
HomeIsSymlink(fs, n) == HomeAt(fs, n).t = "link"
HomeDeref(fs, n) ==
    IF HomeIsSymlink(fs, n) THEN Target(fs, n, fs.home[n].to) ELSE HomeAt(fs, n)
HomeExists(fs, n) == HomeDeref(fs, n).t # "none"
HomeIsFile(fs, n) == HomeDeref(fs, n).t = "file"
HomeIsDir(fs, n) == HomeDeref(fs, n).t = "dir"

\* ------------------------------------------------------------ entry objects
\* An entry object: DotFileBaseClass (enc = FALSE) or DotFileEncrypted /
\* DotDirEncrypted (enc = TRUE, dirv = the directory variant). hash, ts and
\* blob are self.hash, self.timestamp and self.encrypted_path.
PlainObj(n) ==
    [name |-> n, enc |-> FALSE, dirv |-> FALSE, hash |-> NoHash, ts |-> 0,
     blob |-> NoName]
NoObj == PlainObj("")

\* The symlink target that is this entry's self.path.
LinkTag(o) == IF o.enc THEN "work" ELSE "chan"
\* The object at self.path.
PathItem(fs, o) == IF o.enc THEN fs.work[o.name] ELSE ChanItem(fs, o.name)

\* An operation's outcome: the filesystem, the entry object and the result
\* ("ok", a returned value, or the exception raised).
Out(fs, o, res) == [fs |-> fs, o |-> o, res |-> res]

\* cleanup_link without its elif branch
cleanup_link_OrphansOnly(fs, o) ==
    IF HomeIsSymlink(fs, o.name) /\ PathItem(fs, o).t = "none"
    THEN [fs EXCEPT !.home[o.name] = NoFile]
    ELSE fs

cleanup_link(fs, o) ==
    IF HomeIsSymlink(fs, o.name)
    THEN IF PathItem(fs, o).t = "none"
         THEN [fs EXCEPT !.home[o.name] = NoFile]
         ELSE IF fs.home[o.name].to # LinkTag(o)
              THEN [fs EXCEPT !.home[o.name] = NoFile]
              ELSE fs
    ELSE fs

check_symlink(fs, o) ==
    /\ HomeIsSymlink(fs, o.name)
    /\ fs.home[o.name].to = LinkTag(o)

\* link that never removes what occupies link_path
BaseLink_IgnoresForce(fs, o, force) ==
    LET n == o.name
        fs1 == IF HomeIsSymlink(fs, n) THEN [fs EXCEPT !.home[n] = NoFile] ELSE fs
    IN  IF HomeExists(fs1, n) THEN Out(fs1, o, "LinkExists")
        ELSE Out([fs1 EXCEPT !.home[n] = Link(LinkTag(o))], o, "ok")

\* DotFileBaseClass.link
BaseLink(fs, o, force) ==
    LET n == o.name
        fs1 == IF HomeIsSymlink(fs, n) THEN [fs EXCEPT !.home[n] = NoFile] ELSE fs
        fs2 == IF HomeExists(fs1, n) /\ force
               THEN [fs1 EXCEPT !.home[n] = NoFile] ELSE fs1
    IN  IF HomeIsSymlink(fs2, n) THEN Out(fs2, o, "AlreadyLinked")
        ELSE IF HomeExists(fs2, n) THEN Out(fs2, o, "LinkExists")
        ELSE Out([fs2 EXCEPT !.home[n] = Link(LinkTag(o))], o, "ok")

\* DotFileBaseClass.unlink
BaseUnlink(fs, o) ==
    IF ~check_symlink(fs, o) THEN Out(fs, o, "NotLinked")
    ELSE Out([fs EXCEPT !.home[o.name] = NoFile], o, "ok")

\* DotFileEncryptedBaseClass.get_encrypted_path with the hash of src
get_encrypted_path(o, src, t) ==
    IF o.dirv THEN ENCRYPTED_DIR_FORMAT(o.name, t, get_hash(src))
    ELSE ENCRYPTED_FILE_FORMAT(o.name, t, get_hash(src))

\* DotFileEncryptedBaseClass.encrypt(src, force) at clock t
encrypt(fs, o, src, force, t) ==
    IF src.t = "none" THEN Out(fs, o, "OSError")
    ELSE
    LET fn == get_encrypted_path(o, src, t)
        o1 == [o EXCEPT !.blob = fn]
        fs1 == IF src.t = "dir" THEN [fs EXCEPT !.tmp = @ \cup {"tar"}] ELSE fs
    IN  IF ChanExists(fs1, fn) /\ ~force THEN Out(fs1, o1, "BlobExists")
        ELSE Out(ChanWrite(ChanRemove(fs1, fn), ChanFile(fn, src.data, TRUE)),
                 o1, "ok")

\* DotFileEncryptedBaseClass.decrypt(dest = self.path)
FileDecrypt(fs, o) ==
    LET n == o.name IN
    IF fs.work[n].t = "dir" THEN Out(fs, o, "OSError")
    ELSE
    LET fs1 == [fs EXCEPT !.work[n] = NoFile] IN
    IF ~ChanExists(fs1, o.blob) THEN Out(fs1, o, "OSError")
    ELSE LET b == ChanEntry(fs1, o.blob) IN
         IF b.t = "dir" THEN Out(fs1, o, "OSError")
         ELSE IF ~b.ok THEN Out(fs1, o, "DecryptError")
         ELSE Out([fs1 EXCEPT !.work[n] = File(b.data)], o, "ok")

\* DotDirEncrypted.decrypt(dest = self.path)
DirDecrypt(fs, o) ==
    LET n == o.name
        fs1 == [fs EXCEPT !.tmp = @ \cup {"dir"}]
    IN
    IF ~ChanExists(fs1, o.blob) THEN Out(fs1, o, "OSError")
    ELSE LET b == ChanEntry(fs1, o.blob) IN
         IF b.t = "dir" THEN Out(fs1, o, "OSError")
         ELSE IF ~b.ok THEN Out(fs1, o, "DecryptError")
         ELSE LET fs2 == [fs1 EXCEPT !.tmp = @ \cup {"file"}] IN
              IF fs2.work[n].t = "file" THEN Out(fs2, o, "OSError")
              ELSE Out([fs2 EXCEPT !.work[n] = Dir(b.data), !.tmp = @ \ {"file"}],
                       o, "ok")

decrypt(fs, o) == IF o.dirv THEN DirDecrypt(fs, o) ELSE FileDecrypt(fs, o)

\* DotFileEncryptedBaseClass.link
EncLink(fs, o, force) ==
    LET AfterDecrypt(d) == IF d.res # "ok" THEN d ELSE BaseLink(d.fs, o, force)
    IN  AfterDecrypt(decrypt(fs, o))

\* unlink that leaves the decrypted working copy behind
EncUnlink_KeepsCopy(fs, o) == BaseUnlink(fs, o)

\* DotFileEncryptedBaseClass.unlink
EncUnlink(fs, o) ==
    LET AfterSuper(u) ==
            IF u.res # "ok" THEN u
            ELSE IF u.fs.work[o.name].t = "none" THEN Out(u.fs, o, "OSError")
            ELSE Out([u.fs EXCEPT !.work[o.name] = NoFile], o, "ok")
    IN  AfterSuper(BaseUnlink(fs, o))

link(fs, o, force) == IF o.enc THEN EncLink(fs, o, force) ELSE BaseLink(fs, o, force)
unlink(fs, o) == IF o.enc THEN EncUnlink(fs, o) ELSE BaseUnlink(fs, o)

\* DotFileEncryptedBaseClass.is_changed, once check_symlink holds
is_changed(fs, o) == ~check_symlink(fs, o) \/ o.hash # get_hash(fs.work[o.name])

\* DotFileEncryptedBaseClass.update at clock t
update(fs, o, t) ==
    IF ~check_symlink(fs, o) THEN Out(fs, o, "NotLinked")
    ELSE IF fs.work[o.name].t = "none" THEN Out(fs, o, "OSError")
    ELSE IF ~is_changed(fs, o) THEN Out(fs, o, "Unchanged")
    ELSE
    LET old_encrypted_path == o.blob
        AfterUnlink(u) ==
            IF u.res # "ok" THEN u
            ELSE IF ~ChanExists(u.fs, old_encrypted_path)
                 THEN Out(u.fs, u.o, "OSError")
                 ELSE EncLink(ChanRemove(u.fs, old_encrypted_path), u.o, FALSE)
        AfterEncrypt(e) ==
            IF e.res # "ok" THEN e ELSE AfterUnlink(EncUnlink(e.fs, e.o))
    IN  AfterEncrypt(encrypt(fs, o, fs.work[o.name], TRUE, t))

\* DotFileBaseClass.init(src = ~/<name>)
PlainInit(fs, o) ==
    LET n == o.name
        src == fs.home[n]
        moved == [ChanWrite(fs, [fn |-> PlainName(n), t |-> src.t, data |-> src.data,
                                 ok |-> FALSE])
                  EXCEPT !.home[n] = NoFile]
    IN  BaseLink(moved, o, FALSE)

\* init that leaves the original plaintext at its path
EncInit_KeepsSource(fs, o, t) ==
    LET AfterEncrypt(e) == IF e.res # "ok" THEN e ELSE EncLink(e.fs, e.o, FALSE)
    IN  AfterEncrypt(encrypt(fs, o, fs.home[o.name], FALSE, t))

\* DotFileEncryptedBaseClass.init(src = ~/<name>) at clock t
EncInit(fs, o, t) ==
    LET n == o.name
        AfterEncrypt(e) ==
            IF e.res # "ok" THEN e
            ELSE EncLink([e.fs EXCEPT !.home[n] = NoFile], e.o, FALSE)
    IN  AfterEncrypt(encrypt(fs, o, fs.home[n], FALSE, t))

\* ------------------------------------------------------------ construction
\* DotFileBaseClass.__init__(path = channel/<fn>)
DotFileBaseClassNew(fs, fn) ==
    LET o == PlainObj(Join(fn)) IN Out(cleanup_link(fs, o), o, "ok")

\* DotFileEncryptedBaseClass.__init__(path = channel/<fn>) at clock t: the
\* 5-segment form, the 6-segment conflict form, else the fresh form used by init.
DotFileEncryptedNew(fs, fn, dirv, t) ==
    IF (NSeg(fn) = 5 \/ NSeg(fn) = 6) /\ strptime(fn)
    THEN LET o == [name |-> Seg(fn, 1), enc |-> TRUE, dirv |-> dirv,
                   hash |-> Seg(fn, 2), ts |-> Seg(fn, 3), blob |-> fn]
         IN  Out(cleanup_link(fs, o), o, "ok")
    ELSE LET n == Join(fn)
             o0 == [name |-> n, enc |-> TRUE, dirv |-> dirv, hash |-> NoHash,
                    ts |-> t, blob |-> NoName]
         IN  IF ~HomeExists(fs, n) THEN Out(fs, NoObj, "OSError")
             ELSE LET o == [o0 EXCEPT
                              !.blob = get_encrypted_path(o0, HomeDeref(fs, n), t)]
                  IN  Out(cleanup_link(fs, o), o, "ok")

\* Channel.create_obj(path = channel/<fn>)
create_obj(fs, fn, t) ==
    IF EndsWith(fn, ENCRYPTED_DIR_EXT) \/ EndsWith(fn, CONFLICT_DIR_EXT)
    THEN DotFileEncryptedNew(fs, fn, TRUE, t)
    ELSE IF EndsWith(fn, ENCRYPTED_FILE_EXT) \/ EndsWith(fn, CONFLICT_FILE_EXT)
    THEN DotFileEncryptedNew(fs, fn, FALSE, t)
    ELSE DotFileBaseClassNew(fs, fn)

\* [self.create_obj(f) for f in ...]: the objects of the file names in fns, in
\* order, each constructor acting on the filesystem the previous one left.
RECURSIVE CreateAll(_, _, _)
CreateAll(fs, fns, t) ==
    IF fns = <<>> THEN [fs |-> fs, objs |-> <<>>, res |-> "ok"]
    ELSE LET Prepend(o, rest) ==
                 [fs |-> rest.fs, objs |-> <<o>> \o rest.objs, res |-> rest.res]
             AfterCreate(c) ==
                 IF c.res # "ok" THEN [fs |-> c.fs, objs |-> <<>>, res |-> c.res]
                 ELSE Prepend(c.o, CreateAll(c.fs, Tail(fns), t))
         IN  AfterCreate(create_obj(fs, Head(fns), t))

\* The malformed blob names in play, and every logical name in sort order.
Malformed ==
    {FileName("a", <<>>, <<"F", "CRYPT">>),
     FileName("a", <<0>>, <<"D", "CRYPT">>),
     FileName("a", <<0, BadTimestamp>>, <<"F", "CRYPT">>),
     FileName("a", <<0, 0>>, <<"X", "F", "CRYPT">>)}
NameOrd ==
    <<".config", ".config/a", ".git", ".git/a", "a",
      Join(FileName("a", <<0, BadTimestamp>>, <<"F", "CRYPT">>)),
      Join(FileName("a", <<0, 0>>, <<"X", "F", "CRYPT">>)),
      Join(FileName("a", <<0>>, <<"D", "CRYPT">>)),
      Join(FileName("a", <<>>, <<"F", "CRYPT">>)),
      "a#x", "b">>

\* sorted(items, key=lambda item: item.name): a stable sort by name
RECURSIVE SortedFrom(_, _)
SortedFrom(objs, i) ==
    IF i > Len(NameOrd) THEN <<>>
    ELSE SelectSeq(objs, LAMBDA o : o.name = NameOrd[i]) \o SortedFrom(objs, i + 1)
SortedByName(objs) == SortedFrom(objs, 1)

\* Path.iterdir yields the entries in an arbitrary order: here either of the
\* two directions of one total order of the file names, so that each of two
\* entries can come first.
NameIdx(n) == CHOOSE i \in 1..Len(NameOrd) : NameOrd[i] = n
FileKey(fn) ==
    IF Len(fn.meta) < 2 THEN NameIdx(fn.name) * 1000
    ELSE NameIdx(fn.name) * 1000 + 1 + fn.meta[1] + 10 * fn.meta[2]
         + 100 * Len(fn.ext) + (IF fn.ext[1] = "D" THEN 500 ELSE 0)
RECURSIVE Ascending(_)
Ascending(S) ==
    IF S = {} THEN <<>>
    ELSE LET m == CHOOSE x \in S : \A y \in S : FileKey(x) <= FileKey(y)
         IN  <<m>> \o Ascending(S \ {m})
Reverse(s) == [i \in 1..Len(s) |-> s[Len(s) + 1 - i]]
Listings(S) == {Ascending(S), Reverse(Ascending(S))}

FileNames(S) == {e.fn : e \in S}

\* item.iterdir(): the entries of the channel directly below item
iterdir(c, item) == {e \in c : Parent(e.fn.name) = item}

\* The three listings of a directory that a scan walks: the files
\* search_dotfiles takes, the files search_conflicts takes, the directories.
\* search_dotfiles without its filter on the conflict marker
dotfile_files_AllFiles(c) == {e \in c : e.t = "file"}
dotfile_files(c) == {e \in c : e.t = "file" /\ ~EndsWith(e.fn, CONFLICT_EXT)}
conflict_files(c) == {e \in c : e.t = "file" /\ EndsWith(e.fn, CONFLICT_EXT)}
channel_dirs(c) == {e \in c : e.t = "dir"}

\* d.name in SCAN_DIR_BLACKLIST / d.name in search_dirs
Blacklisted(fn) == BaseName(fn.name) \in SCAN_DIR_BLACKLIST
InSearchDirs(fn) == BaseName(fn.name) \in check_dirs

\* Channel.search_dotfiles(item) for one iterdir order of the files of item
\* and one of its directories; SearchDirs is its loop over the directories:
\* an excluded one is passed over, one of the check set is searched in turn,
\* any other one becomes one entry.
RECURSIVE search_dotfiles(_, _, _, _)
RECURSIVE SearchDirs(_, _, _)
SearchDirs(fs, dirs, t) ==
    IF dirs = <<>> THEN [fs |-> fs, objs |-> <<>>, res |-> "ok"]
    ELSE LET d == Head(dirs)
             Extend(objs, rest) ==
                 [fs |-> rest.fs, objs |-> objs \o rest.objs, res |-> rest.res]
             AfterDir(c) ==
                 IF c.res # "ok" THEN c
                 ELSE Extend(c.objs, SearchDirs(c.fs, Tail(dirs), t))
         IN  IF Blacklisted(d) THEN SearchDirs(fs, Tail(dirs), t)
             ELSE IF InSearchDirs(d)
             THEN AfterDir(search_dotfiles(
                      fs,
                      Ascending(FileNames(dotfile_files(iterdir(fs.chan, d.name)))),
                      Ascending(FileNames(channel_dirs(iterdir(fs.chan, d.name)))),
                      t))
             ELSE AfterDir(CreateAll(fs, <<d>>, t))

search_dotfiles(fs, files, dirs, t) ==
    LET Sorted(c) == [fs |-> c.fs, objs |-> SortedByName(c.objs), res |-> c.res]
        Extend(objs, rest) ==
            [fs |-> rest.fs, objs |-> objs \o rest.objs, res |-> rest.res]
        AfterFiles(c) ==
            IF c.res # "ok" THEN c ELSE Extend(c.objs, SearchDirs(c.fs, dirs, t))
    IN  Sorted(AfterFiles(CreateAll(fs, files, t)))

\* Channel.filter_decrypted: df.path is the working copy for an encrypted
\* entry and channel/<name> for a plain one.
EntryPath(o) == <<LinkTag(o), o.name>>
filter_decrypted(objs) ==
    LET ret == SelectSeq(objs, LAMBDA o : o.enc)
        encr_paths == {EntryPath(ret[i]) : i \in DOMAIN ret}
    IN  ret \o SelectSeq(objs, LAMBDA o : EntryPath(o) \notin encr_paths)

\* Channel.search_conflicts(channel root): the conflict blobs and every
\* directory that is neither excluded nor in the check set, sorted by name
search_conflicts(fs, files, dirs, t) ==
    LET Sorted(c) == [fs |-> c.fs, objs |-> SortedByName(c.objs), res |-> c.res]
        kept == SelectSeq(dirs, LAMBDA d : ~Blacklisted(d) /\ ~InSearchDirs(d))
    IN  Sorted(CreateAll(fs, files \o kept, t))

\* Channel.get_dotfile(name): the first entry of the index with that name
get_dotfile(index, n) ==
    LET hits == SelectSeq(index, LAMBDA o : o.name = n) IN
    IF hits = <<>> THEN NoObj ELSE Head(hits)

\* sorted(..., key=lambda x: x.timestamp, reverse=True): stable, newest first
RECURSIVE NewestFrom(_, _)
NewestFrom(objs, t) ==
    IF t < 0 THEN <<>>
    ELSE SelectSeq(objs, LAMBDA o : o.ts = t) \o NewestFrom(objs, t - 1)
SortedNewestFirst(objs) == NewestFrom(objs, MaxTime)

\* Channel.__init__ at clock t, for one iterdir order of the files that are
\* no conflicts (files), of the directories (dirs) and of the conflict files
\* (cfiles). A DotFileBaseClass object has no timestamp to sort by.
ChannelNew(fs, files, dirs, cfiles, t) ==
    LET failed(f, res) == [fs |-> f, dotfiles |-> <<>>, conflicts |-> <<>>,
                           res |-> res]
        AfterConflicts(d, c) ==
            IF c.res # "ok" THEN failed(c.fs, c.res)
            ELSE IF \E i \in DOMAIN c.objs : ~c.objs[i].enc
            THEN failed(c.fs, "AttributeError")
            ELSE [fs |-> c.fs, dotfiles |-> filter_decrypted(d.objs),
                  conflicts |-> SortedNewestFirst(c.objs), res |-> "ok"]
        AfterDotfiles(d) ==
            IF d.res # "ok" THEN failed(d.fs, d.res)
            ELSE AfterConflicts(d, search_conflicts(d.fs, cfiles, dirs, t))
    IN  AfterDotfiles(search_dotfiles(fs, files, dirs, t))

\* for dotfile in dfs: dotfile.link(force=force); an exception ends the loop
RECURSIVE LinkEach(_, _, _)
LinkEach(fs, dfs, force) ==
    IF dfs = <<>> THEN Out(fs, NoObj, "ok")
    ELSE LET AfterLink(l) ==
                 IF l.res # "ok" THEN Out(l.fs, NoObj, l.res)
                 ELSE LinkEach(l.fs, Tail(dfs), force)
         IN  AfterLink(link(fs, Head(dfs), force))

\* for dotfile in dfs: dotfile.unlink(); unlink returns when not linked
RECURSIVE UnlinkEach(_, _)
UnlinkEach(fs, dfs) ==
    IF dfs = <<>> THEN Out(fs, NoObj, "ok")
    ELSE LET AfterUnlink(u) ==
                 IF u.res = "OSError" THEN Out(u.fs, NoObj, u.res)
                 ELSE UnlinkEach(u.fs, Tail(dfs))
         IN  AfterUnlink(unlink(fs, Head(dfs)))

\* Channel.link_all, once confirmed
link_all(fs, index, force) ==
    LET listed == SelectSeq(index, LAMBDA df : ~check_symlink(fs, df)) IN
    LinkEach(fs, index, force)

\* Channel.unlink_all, once confirmed
unlink_all(fs, index) ==
    LET listed == SelectSeq(index, LAMBDA df : check_symlink(fs, df)) IN
    UnlinkEach(fs, listed)

\* Channel.init(path = ~/<n>, encrypted) at clock t
ChannelInit(fs, index, n, encrypted, t) ==
    LET Validate(c) ==
            IF c.res # "ok" THEN c
            ELSE IF get_dotfile(index, c.o.name) # NoObj THEN Out(c.fs, NoObj, "Exists")
            ELSE IF ~(HomeIsFile(c.fs, n) \/ HomeIsDir(c.fs, n))
            THEN Out(c.fs, NoObj, "NotFileOrDir")
            ELSE IF HomeIsSymlink(c.fs, n) THEN Out(c.fs, NoObj, "IsSymlink")
            ELSE IF encrypted THEN EncInit(c.fs, c.o, t) ELSE PlainInit(c.fs, c.o)
    IN  Validate(IF encrypted
                 THEN IF HomeIsFile(fs, n) THEN DotFileEncryptedNew(fs, PlainName(n), FALSE, t)
                      ELSE IF HomeIsDir(fs, n) THEN DotFileEncryptedNew(fs, PlainName(n), TRUE, t)
                      ELSE Out(fs, NoObj, "MicrodotError")
                 ELSE DotFileBaseClassNew(fs, PlainName(n)))

\* PurePath.with_suffix(''): drops the part of the last path component from
\* its last '.'; no file name in play holds a '.', so nothing is dropped.
with_suffix(fn) == fn

\* Channel.get_dotfile(df_path) for a path: str(df.name) == str(df_path), and
\* no logical name holds a '#'.
get_dotfile_at(index, fn) ==
    IF NSeg(fn) = 1 THEN get_dotfile(index, fn.name) ELSE NoObj

\* update_decrypted_from_encrypted(paths) at clock t: for each path a Channel
\* is constructed anew (get_channel), the entry looked up and decrypted.
RECURSIVE update_decrypted_from_encrypted(_, _, _, _, _, _)
update_decrypted_from_encrypted(fs, paths, files, dirs, cfiles, t) ==
    IF paths = <<>> THEN Out(fs, NoObj, "ok")
    ELSE LET AfterDecrypt(d) ==
                 IF d.res # "ok" THEN Out(d.fs, NoObj, d.res)
                 ELSE update_decrypted_from_encrypted(d.fs, Tail(paths), files,
                                                      dirs, cfiles, t)
             Redecrypt(f, dotfile) ==
                 IF dotfile = NoObj \/ ~dotfile.enc
                 THEN Out(f, NoObj, "AttributeError")
                 ELSE AfterDecrypt(decrypt(f, dotfile))
             AfterChannel(channel) ==
                 IF channel.res # "ok" THEN Out(channel.fs, NoObj, channel.res)
                 ELSE Redecrypt(channel.fs,
                                get_dotfile_at(channel.dotfiles,
                                               with_suffix(Head(paths))))
         IN  AfterChannel(ChannelNew(fs, files, dirs, cfiles, t))

\* ------------------------------------------------------------------ state
\* The last operation: its name, the entry object it was called on (0: held,
\* i: dotfiles[i]), the logical name, its flag (force / encrypted), what was
\* at link_path when it was called, and its result.
Did(op, ref, n, flag, was, res) ==
    [op |-> op, ref |-> ref, name |-> n, flag |-> flag, was |-> was, res |-> res]

\* What the channel can hold for one name when the program starts: nothing, a
\* plain file or directory, or an active blob (with or without a conflict
\* blob beside it) written at time 0.
BlobsOf(n) ==
    {ChanFile(ENCRYPTED_FILE_FORMAT(n, 0, get_hash(File(0))), 0, ok) :
        ok \in BOOLEAN}
    \cup {ChanFile(ENCRYPTED_DIR_FORMAT(n, 0, get_hash(Dir(0))), 0, ok) :
        ok \in BOOLEAN}
ConflictOf(b) ==
    ChanFile(FileName(b.fn.name, b.fn.meta, b.fn.ext \o CONFLICT_EXT), 0, TRUE)
PlainsOf(n) == {ChanFile(PlainName(n), 0, FALSE), ChanDir(PlainName(n), 0)}
ChanInitOf(n) ==
    {{}} \cup {{p} : p \in PlainsOf(n)}
         \cup {{b} : b \in BlobsOf(n)}
         \cup {{b, ConflictOf(b)} : b \in {x \in BlobsOf(n) : x.ok}}
         \cup {{b, ChanFile(PlainName(n), 0, FALSE)} :
                  b \in {x \in BlobsOf(n) : x.ok}}
HomeInit == {NoFile, File(1), Dir(1), Link("chan"), Link("work"), Link("ext")}
\* A working copy left by an earlier run has the kind of the entry's blob.
WorkInitOf(c) ==
    {NoFile}
    \cup {File(e.data) : e \in {x \in c : NSeg(x.fn) = 5 /\ Seg(x.fn, 4) = "F"}}
    \cup {Dir(e.data) : e \in {x \in c : NSeg(x.fn) = 5 /\ Seg(x.fn, 4) = "D"}}

Init ==
    /\ home \in [Names -> HomeInit]
    /\ \E c \in [Names -> UNION {ChanInitOf(n) : n \in Names}] :
         /\ \A n \in Names : c[n] \in ChanInitOf(n)
         /\ chan = UNION {c[n] : n \in Names}
         /\ work \in [Names -> UNION {WorkInitOf(c[n]) : n \in Names}]
         /\ \A n \in Names : work[n] \in WorkInitOf(c[n])
    /\ tmp = {}
    /\ dotfiles = <<>>
    /\ conflicts = <<>>
    /\ scanned = FALSE
    /\ held = NoObj
    /\ now = 0
    /\ last = Did("user", 0, "", FALSE, "", "ok")

SetFS(fs) ==
    /\ home' = fs.home
    /\ chan' = fs.chan
    /\ work' = fs.work
    /\ tmp' = fs.tmp

\* The entry objects the caller can hold: the one Channel.init or create_obj
\* returned (0) and the entries of the channel's index.
Refs == (IF held # NoObj THEN {0} ELSE {}) \cup DOMAIN dotfiles
Obj(ref) == IF ref = 0 THEN held ELSE dotfiles[ref]
Store(ref, o) ==
    IF ref = 0 THEN held' = o /\ UNCHANGED dotfiles
    ELSE dotfiles' = [dotfiles EXCEPT ![ref] = o] /\ UNCHANGED held

\* ---------------------------------------------------------------- actions
\* datetime.utcnow() advances
Tick ==
    /\ now < MaxTime
    /\ now' = now + 1
    /\ last' = Did("user", 0, "", FALSE, "", "ok")
    /\ tmp' = {}
    /\ UNCHANGED <<home, chan, work, dotfiles, conflicts, scanned, held>>

\* The user edits the working copy (through the symlink or in place).
EditWork ==
    \E n \in DOMAIN work, d \in Data :
        /\ work[n].t # "none"
        /\ work[n].data # d
        /\ work' = [work EXCEPT ![n].data = d]
        /\ last' = Did("user", 0, "", FALSE, "", "ok")
        /\ tmp' = {}
        /\ UNCHANGED <<home, chan, dotfiles, conflicts, scanned, held, now>>

\* Channel(path, state): the caller replaces its Channel, and lets go of the
\* entry objects it got from the previous one.
Scan ==
    \E files \in Listings(FileNames(dotfile_files(iterdir(chan, "")))) :
        LET dirs == Ascending(FileNames(channel_dirs(iterdir(chan, ""))))
            cfiles == Ascending(FileNames(conflict_files(iterdir(chan, ""))))
        IN
        \E r \in {ChannelNew(FS, files, dirs, cfiles, now)} :
        /\ SetFS(r.fs)
        /\ scanned' = (r.res = "ok")
        /\ dotfiles' = r.dotfiles
        /\ conflicts' = r.conflicts
        /\ held' = NoObj
        /\ last' = Did("scan", 0, "", FALSE, "", r.res)
        /\ UNCHANGED now

\* channel.create_obj(path) for a path of the channel directory
CreateObj ==
    \E e \in chan :
        \E r \in {create_obj(FS, e.fn, now)} :
        /\ scanned
        /\ SetFS(r.fs)
        /\ last' = Did("create_obj", 0, r.o.name, r.o.enc, home[r.o.name].t, r.res)
        /\ UNCHANGED <<dotfiles, conflicts, scanned, held, now>>

\* dotfile.link(force)
LinkOp ==
    \E ref \in Refs, force \in BOOLEAN :
        \E r \in {link(FS, Obj(ref), force)} :
        /\ SetFS(r.fs)
        /\ last' = Did("link", ref, Obj(ref).name, force, home[Obj(ref).name].t, r.res)
        /\ UNCHANGED <<dotfiles, conflicts, scanned, held, now>>

\* dotfile.unlink()
UnlinkOp ==
    \E ref \in Refs :
        \E r \in {unlink(FS, Obj(ref))} :
        /\ SetFS(r.fs)
        /\ last' = Did("unlink", ref, Obj(ref).name, FALSE, home[Obj(ref).name].t, r.res)
        /\ UNCHANGED <<dotfiles, conflicts, scanned, held, now>>

\* dotfile.decrypt() of an encrypted entry
DecryptOp ==
    \E ref \in Refs :
        \E r \in {decrypt(FS, Obj(ref))} :
        /\ Obj(ref).enc
        /\ SetFS(r.fs)
        /\ last' = Did("decrypt", ref, Obj(ref).name, FALSE, home[Obj(ref).name].t, r.res)
        /\ UNCHANGED <<dotfiles, conflicts, scanned, held, now>>

\* dotfile.update() of an encrypted entry
UpdateOp ==
    \E ref \in Refs :
        \E r \in {update(FS, Obj(ref), now)} :
        /\ Obj(ref).enc
        /\ SetFS(r.fs)
        /\ Store(ref, r.o)
        /\ last' = Did("update", ref, Obj(ref).name, FALSE, home[Obj(ref).name].t, r.res)
        /\ UNCHANGED <<conflicts, scanned, now>>

\* channel.link_all(force, assume_yes): confirm() answers yes or no
LinkAllOp ==
    \E force \in BOOLEAN, yes \in BOOLEAN :
        \E r \in {IF yes THEN link_all(FS, dotfiles, force)
                    ELSE Out(FS, NoObj, "Declined")} :
        /\ scanned
        /\ SetFS(r.fs)
        /\ last' = Did("link_all", 0, "", force, "", r.res)
        /\ UNCHANGED <<dotfiles, conflicts, scanned, held, now>>

\* channel.unlink_all(assume_yes)
UnlinkAllOp ==
    \E yes \in BOOLEAN :
        \E r \in {IF yes THEN unlink_all(FS, dotfiles)
                    ELSE Out(FS, NoObj, "Declined")} :
        /\ scanned
        /\ SetFS(r.fs)
        /\ last' = Did("unlink_all", 0, "", FALSE, "", r.res)
        /\ UNCHANGED <<dotfiles, conflicts, scanned, held, now>>

\* channel.init(~/<n>, encrypted): returns the new entry object
ChannelInitOp ==
    \E n \in DOMAIN home, encrypted \in BOOLEAN :
        \E r \in {ChannelInit(FS, dotfiles, n, encrypted, now)} :
        /\ scanned
        /\ SetFS(r.fs)
        /\ held' = IF r.res = "ok" THEN r.o ELSE held
        /\ last' = Did("init", 0, n, encrypted, home[n].t, r.res)
        /\ UNCHANGED <<dotfiles, conflicts, scanned, now>>

Next ==
    \/ Tick
    \/ EditWork
    \/ Scan
    \/ CreateObj
    \/ LinkOp
    \/ UnlinkOp
    \/ DecryptOp
    \/ UpdateOp
    \/ LinkAllOp
    \/ UnlinkAllOp
    \/ ChannelInitOp

Spec == Init /\ [][Next]_vars

\* ------------------------------------------------- bulk and sync scenarios
\* A channel with two logical names, acted on by the bulk operations and by
\* the callback of the external sync mechanism.
\* The first name starts in any of the states of the single-entry scenarios,
\* the second as a plain file or a decryptable blob with nothing real at its
\* link_path.
BulkNames == {"a", "b"}
BulkChanOf(n) ==
    IF n = "a" THEN ChanInitOf(n)
    ELSE {{ChanFile(PlainName(n), 0, FALSE)},
          {ChanFile(ENCRYPTED_FILE_FORMAT(n, 0, get_hash(File(0))), 0, TRUE)}}
BulkHomeOf(n) ==
    IF n = "a" THEN HomeInit ELSE {NoFile, Link("chan"), Link("work")}
InitBulk ==
    /\ home \in [BulkNames -> HomeInit]
    /\ \A n \in BulkNames : home[n] \in BulkHomeOf(n)
    /\ \E c \in [BulkNames -> UNION {BulkChanOf(n) : n \in BulkNames}] :
         /\ \A n \in BulkNames : c[n] \in BulkChanOf(n)
         /\ chan = UNION {c[n] : n \in BulkNames}
         /\ work \in [BulkNames -> UNION {WorkInitOf(c[n]) : n \in BulkNames}]
         /\ \A n \in BulkNames : work[n] \in WorkInitOf(c[n])
    /\ tmp = {}
    /\ dotfiles = <<>>
    /\ conflicts = <<>>
    /\ scanned = FALSE
    /\ held = NoObj
    /\ now = 0
    /\ last = Did("user", 0, "", FALSE, "", "ok")

\* The paths the sync mechanism reports: up to two blobs of the channel.
ChangedPaths ==
    LET blobs == {e.fn : e \in {x \in dotfile_files(chan) : NSeg(x.fn) = 5}} IN
    {<<>>} \cup {<<p>> : p \in blobs} \cup {<<pq[1], pq[2]>> : pq \in {x \in blobs \X blobs : x[1] # x[2]}}

\* update_decrypted_from_encrypted(paths), called by the sync mechanism
UpdateDecryptedOp ==
    \E paths \in ChangedPaths, files \in Listings(FileNames(dotfile_files(iterdir(chan, "")))) :
        LET dirs == Ascending(FileNames(channel_dirs(iterdir(chan, ""))))
            cfiles == Ascending(FileNames(conflict_files(iterdir(chan, ""))))
        IN
        \E r \in {update_decrypted_from_encrypted(FS, paths, files, dirs, cfiles, now)} :
        /\ SetFS(r.fs)
        /\ last' = Did("callback", Len(paths),
                       IF paths = <<>> THEN "" ELSE Head(paths).name,
                       FALSE, "", r.res)
        /\ UNCHANGED <<dotfiles, conflicts, scanned, held, now>>

NextBulk ==
    \/ Scan
    \/ LinkAllOp
    \/ UnlinkAllOp
    \/ UpdateDecryptedOp

SpecBulk == InitBulk /\ [][NextBulk]_vars

\* ------------------------------------------------- blob name scenarios
\* A channel that is empty or holds one file with a malformed blob name, and
\* real files or directories at the paths ~/a, ~/a#x and ~/<that file name>,
\* adopted by Channel.init and read back by a scan.
CodecNames == {"a", "a#x"}
InitCodec ==
    /\ chan \in {{}} \cup {{ChanFile(fn, 0, TRUE)} : fn \in Malformed}
    /\ home \in [CodecNames \cup {Join(e.fn) : e \in chan}
                   -> {NoFile, File(1), Dir(1)}]
    /\ home["a"] # NoFile
    /\ \A n \in DOMAIN home \ {"a"} : home[n] # Dir(1)
    /\ work = [n \in DOMAIN home |-> NoFile]
    /\ tmp = {}
    /\ dotfiles = <<>>
    /\ conflicts = <<>>
    /\ scanned = FALSE
    /\ held = NoObj
    /\ now = 0
    /\ last = Did("user", 0, "", FALSE, "", "ok")

NextCodec ==
    \/ Tick
    \/ Scan
    \/ ChannelInitOp

SpecCodec == InitCodec /\ [][NextCodec]_vars

\* ------------------------------------------------------ scan scenarios
\* A channel root that holds, besides what it holds for the name a, an item
\* named as the exclusion list names (a file, or a directory with or without
\* a file in it) and a directory of the check set (with or without a file in
\* it). ~/.config is a real directory; the other link paths are free or
\* symlinks into the channel.
ScanNames == {"a", ".git", ".config/a"}
ScanChanOf(n) ==
    CASE n = "a" ->
           {{}, {ChanFile(PlainName("a"), 0, FALSE)}, {ChanDir(PlainName("a"), 0)},
            {ChanFile(ENCRYPTED_FILE_FORMAT("a", 0, get_hash(File(0))), 0, TRUE)},
            {ChanFile(ENCRYPTED_FILE_FORMAT("a", 0, get_hash(File(0))), 0, TRUE),
             ConflictOf(ChanFile(ENCRYPTED_FILE_FORMAT("a", 0, get_hash(File(0))),
                                 0, TRUE))}}
      [] n = ".git" ->
           {{}, {ChanFile(PlainName(".git"), 0, FALSE)},
            {ChanDir(PlainName(".git"), 0)},
            {ChanDir(PlainName(".git"), 0), ChanFile(PlainName(".git/a"), 0, FALSE)}}
      [] OTHER ->
           {{}, {ChanDir(PlainName(".config"), 0)},
            {ChanDir(PlainName(".config"), 0),
             ChanFile(PlainName(".config/a"), 0, FALSE)}}
InitScan ==
    /\ home \in [ScanNames -> {NoFile, Link("chan")}]
    /\ \E c \in [ScanNames -> UNION {ScanChanOf(n) : n \in ScanNames}] :
         /\ \A n \in ScanNames : c[n] \in ScanChanOf(n)
         /\ chan = UNION {c[n] : n \in ScanNames}
    /\ work = [n \in ScanNames |-> NoFile]
    /\ tmp = {}
    /\ dotfiles = <<>>
    /\ conflicts = <<>>
    /\ scanned = FALSE
    /\ held = NoObj
    /\ now = 0
    /\ last = Did("user", 0, "", FALSE, "", "ok")

NextScan ==
    \/ Scan
    \/ LinkAllOp
    \/ UnlinkAllOp

SpecScan == InitScan /\ [][NextScan]_vars

\* ----------------------------------------------------------------- claims
\* The entry object the last operation was called on, before and after it.
Target0 == Obj(last'.ref)
Target1 == IF last'.ref = 0 THEN held' ELSE dotfiles'[last'.ref]
\* The entry is linked: link_path is a symlink that resolves to its source
\* (its working copy), which exists.
Linked(fs, o) == check_symlink(fs, o) /\ PathItem(fs, o).t # "none"
\* The hash segment of the entry's current blob name.
BlobHash(o) == Seg(o.blob, 2)
ActiveBlobs(c, n) ==
    {e \in c : e.t = "file" /\ NSeg(e.fn) = 5 /\ Seg(e.fn, 1) = n
               /\ Seg(e.fn, 5) = "CRYPT"}

\* C1: update() of a linked encrypted entry whose working copy's hash differs
\* from the hash in its blob name leaves a new blob with another hash segment,
\* no previous blob, and the symlink resolving to the modified content.
C1_UpdateReencrypts ==
    [][(/\ last'.op = "update"
        /\ Target0.enc
        /\ Linked(FS, Target0)
        /\ ChanExists(FS, Target0.blob)
        /\ get_hash(work[Target0.name]) # BlobHash(Target0))
       => /\ ChanExists([chan |-> chan'], Target1.blob)
          /\ BlobHash(Target1) # BlobHash(Target0)
          /\ ~ChanExists([chan |-> chan'], Target0.blob)
          /\ home'[Target0.name] = Link("work")
          /\ work'[Target0.name] = work[Target0.name]]_vars

\* C2: update() changes nothing when the entry is not linked or when the
\* working copy's hash equals the hash in the entry's current blob name.
C2_UpdateNoOp ==
    [][(/\ last'.op = "update"
        /\ Target0.enc
        /\ \/ ~check_symlink(FS, Target0)
           \/ /\ work[Target0.name].t # "none"
              /\ get_hash(work[Target0.name]) = BlobHash(Target0))
       => UNCHANGED <<home, chan, work>>]_vars

\* C3: a confirmed and completed link_all leaves every already-linked entry as it was (its
\* symlink and its working copy), and a confirmed unlink_all every entry that
\* was not linked; entries sharing a link_path with an affected one aside.
SharesLinkPath(S, o) == \E i \in S : dotfiles[i].name = o.name
C3_BulkFrame ==
    [][/\ (last'.op = "link_all" /\ last'.res = "ok")
          => \A i \in DOMAIN dotfiles :
               LET o == dotfiles[i]
                   affected == {j \in DOMAIN dotfiles : ~check_symlink(FS, dotfiles[j])}
               IN  (check_symlink(FS, o) /\ ~SharesLinkPath(affected, o))
                   => /\ home'[o.name] = home[o.name]
                      /\ work'[o.name] = work[o.name]
       /\ (last'.op = "unlink_all" /\ last'.res = "ok")
          => \A i \in DOMAIN dotfiles :
               LET o == dotfiles[i]
                   affected == {j \in DOMAIN dotfiles : check_symlink(FS, dotfiles[j])}
               IN  (~check_symlink(FS, o) /\ ~SharesLinkPath(affected, o))
                   => /\ home'[o.name] = home[o.name]
                      /\ work'[o.name] = work[o.name]]_vars

\* C4: Channel.init(path, encrypted=true) of a real file whose name the channel
\* does not track leaves exactly one active blob of kind F for the name, no
\* real file at path, and path a symlink to a working copy with the file's
\* content.
Untracked(n) ==
    /\ get_dotfile(dotfiles, n) = NoObj
    /\ \A e \in chan : e.fn.name # n
C5_InitValidatesFirst ==
    [][(/\ last'.op = "init"
        /\ home[last'.name].t \in {"link", "none"})
       => /\ last'.res # "ok"
          /\ UNCHANGED <<home, chan, dotfiles>>]_vars

\* C6: a decrypt() that fails with a decryption error writes nothing to the
\* working copy path and leaves an existing working copy in place.
C6_DecryptFailsAtomically ==
    [][(last'.op = "decrypt" /\ last'.res = "DecryptError")
       => work' = work]_vars

\* C7: link(force=false) on a correctly linked entry fails with the
\* already-linked error and changes nothing.
C7_AlreadyLinked ==
    [][(/\ last'.op = "link"
        /\ ~last'.flag
        /\ Linked(FS, Target0))
       => /\ last'.res = "AlreadyLinked"
          /\ UNCHANGED <<home, chan, work>>]_vars

\* C8 as stated: with a real file or directory at link_path, link(force=false)
\* fails with the link-target-exists error and leaves the object in place, and
\* link(force=true) ends with link_path a symlink to the entry's source.
C8_AsStated ==
    [][(/\ last'.op = "link"
        /\ home[last'.name].t \in {"file", "dir"})
       => IF last'.flag
          THEN home'[last'.name] = Link(LinkTag(Target0))
          ELSE /\ last'.res = "LinkExists"
               /\ home'[last'.name] = home[last'.name]]_vars

\* C8, amended: the same, provided the decrypt step that an encrypted entry's
\* link() runs first succeeds; when that step fails, link() fails with its
\* error and the object at link_path stays in place, forced or not.
DecryptStepOk(fs, o) == ~o.enc \/ decrypt(fs, o).res = "ok"
C8_LinkOverRealObject ==
    [][(/\ last'.op = "link"
        /\ home[last'.name].t \in {"file", "dir"})
       => IF DecryptStepOk(FS, Target0)
          THEN IF last'.flag
               THEN /\ last'.res = "ok"
                    /\ home'[last'.name] = Link(LinkTag(Target0))
               ELSE /\ last'.res = "LinkExists"
                    /\ home'[last'.name] = home[last'.name]
          ELSE /\ last'.res \notin {"ok", "LinkExists"}
               /\ home'[last'.name] = home[last'.name]]_vars
C8_Witness ==
    /\ last.op = "link" /\ last.flag /\ last.was \in {"file", "dir"}
    /\ last.res = "ok"
    /\ Obj(last.ref).enc
    /\ home[last.name] = Link("work")
    /\ work[last.name].t # "none"

\* C9: unlink() of an entry that is not linked changes nothing; of a linked
\* entry it removes the symlink and, for an encrypted entry, the working
\* copy, and leaves the channel directory (the blob) as it was.
C9_Unlink ==
    [][(last'.op = "unlink")
       => IF ~check_symlink(FS, Target0)
          THEN UNCHANGED <<home, chan, work>>
          ELSE /\ home'[last'.name] = NoFile
               /\ Target0.enc => work'[last'.name] = NoFile
               /\ ~Target0.enc => work' = work
               /\ chan' = chan]_vars
C9_Witness ==
    /\ last.op = "unlink" /\ last.was = "link" /\ last.res = "ok"
    /\ Obj(last.ref).enc
    /\ home[last.name] = NoFile
    /\ work[last.name] = NoFile
    /\ ChanExists(FS, Obj(last.ref).blob)

\* C10: constructing an entry whose link_path is a symlink removes the
\* symlink when it is dangling or does not resolve to the entry's source,
\* so that the entry is unlinked, and keeps it when it resolves to the
\* existing source; nothing else changes, and constructing the same entry
\* again changes nothing. A scan removes every such symlink of an entry it
\* constructs.
Constructed == PlainObj(last'.name)
ConstructedObj == [Constructed EXCEPT !.enc = last'.flag]
C10_SelfHealing ==
    [][/\ (last'.op = "create_obj" /\ last'.res = "ok")
          => /\ IF home[last'.name].t = "link" /\ ~Linked(FS, ConstructedObj)
                THEN home'[last'.name] = NoFile
                ELSE home'[last'.name] = home[last'.name]
             /\ ~Linked(FS, ConstructedObj)
                  => ~check_symlink([home |-> home'], ConstructedObj)
             /\ UNCHANGED <<chan, work>>
             /\ (last.op = "create_obj" /\ last.name = last'.name
                 /\ last.flag = last'.flag) => UNCHANGED <<home, chan, work>>
       /\ (last'.op = "scan")
          => \A e \in chan :
               LET o == create_obj(FS, e.fn, now).o IN
               (home[o.name].t = "link" /\ ~Linked(FS, o))
                  => home'[o.name] = NoFile]_vars
C10_Witness ==
    /\ last.op = "create_obj" /\ last.was = "link" /\ last.res = "ok"
    /\ home[last.name] = NoFile

\* C11: a link_all that ends normally or with a link-path error leaves linked
\* every entry of the index that links when taken alone, and an unlink_all
\* that ends normally leaves unlinked every entry that was linked: the
\* failure of one entry does not keep the others from being processed.
LinkStateErrors == {"AlreadyLinked", "NotLinked", "LinkExists"}
AloneInIndex(i) == \A j \in DOMAIN dotfiles : dotfiles[j].name = dotfiles[i].name => j = i
IsConflict(o) == o.enc /\ EndsWith(o.blob, CONFLICT_EXT)
C12_ConflictIsolation ==
    [][/\ \A n \in DOMAIN home : ~IsConflict(get_dotfile(dotfiles', n))
       /\ \A i \in DOMAIN dotfiles' : ~IsConflict(dotfiles'[i])
       /\ last'.op \in {"link_all", "unlink_all"}
            => /\ conflict_files(chan') = conflict_files(chan)
               /\ \A i \in DOMAIN conflicts : ChanExists([chan |-> chan'], conflicts[i].blob)]_vars
C12_Witness ==
    /\ last.op = "link_all" /\ last.res = "ok"
    /\ conflicts # <<>>
    /\ conflict_files(chan) # {}
    /\ \E i \in DOMAIN dotfiles :
         dotfiles[i].enc /\ Linked(FS, dotfiles[i])
                         /\ dotfiles[i].name = conflicts[1].name

\* C13: after a scan no two entries of the index have the same logical name;
\* a name with both an active blob and a plaintext file or directory in the
\* channel has the encrypted entry only, and the plaintext stays on disk.
C13_IndexUniqueByName ==
    [][(last'.op = "scan" /\ last'.res = "ok")
       => /\ \A i, j \in DOMAIN dotfiles' :
               dotfiles'[i].name = dotfiles'[j].name => i = j
          /\ \A n \in DOMAIN home :
               (ActiveBlobs(chan, n) # {} /\ ChanExists(FS, PlainName(n)))
               => /\ get_dotfile(dotfiles', n).enc
                  /\ ChanExists([chan |-> chan'], PlainName(n))]_vars

\* C14: of the files a scan hands to the encrypted-entry decoder, those of the
\* 5-segment active form and of the 6-segment conflict form are decoded, and
\* every other one fails with a parse error.
EncryptedExts ==
    {ENCRYPTED_FILE_EXT, ENCRYPTED_DIR_EXT, CONFLICT_FILE_EXT, CONFLICT_DIR_EXT}
WellFormed(fn) ==
    /\ Len(Split(fn.name)) = 1
    /\ Len(fn.meta) = 2
    /\ fn.meta[2] >= 0
    /\ fn.ext \in EncryptedExts
C14_DecodeRejectsMalformed ==
    [][(last'.op = "scan")
       => \A e \in {x \in chan : x.t = "file"
                                /\ \E ext \in EncryptedExts : EndsWith(x.fn, ext)} :
            LET r == create_obj(FS, e.fn, now) IN
            IF WellFormed(e.fn)
            THEN r.res = "ok" /\ r.o.blob = e.fn
            ELSE r.res = "ParseError"]_vars

\* C15: the entry a scan constructs from a blob whose file name is the
\* encoding of (name, kind, hash, timestamp) has that name, kind, hash and
\* timestamp.
IsEncoding(fn) ==
    /\ fn.name \in DOMAIN home
    /\ Len(fn.meta) = 2
    /\ fn.meta[2] >= 0
    /\ \/ fn = ENCRYPTED_FILE_FORMAT(fn.name, fn.meta[2], fn.meta[1])
       \/ fn = ENCRYPTED_DIR_FORMAT(fn.name, fn.meta[2], fn.meta[1])
C15_BlobNameRoundTrip ==
    [][(last'.op = "scan")
       => \A e \in {x \in chan : x.t = "file" /\ IsEncoding(x.fn)} :
            LET r == create_obj(FS, e.fn, now) IN
            /\ r.res = "ok"
            /\ r.o.enc
            /\ r.o.name = e.fn.name
            /\ r.o.dirv = (e.fn.ext = ENCRYPTED_DIR_EXT)
            /\ r.o.hash = e.fn.meta[1]
            /\ r.o.ts = e.fn.meta[2]]_vars

\* C16: update_decrypted_from_encrypted(paths) for paths that name blobs of
\* encrypted entries completes, and leaves the working copy of the entry of
\* each path equal to the decryption of its blob.
C16_CallbackRedecrypts ==
    [][(/\ last'.op = "callback"
        /\ last'.ref >= 1
        /\ \A e \in ActiveBlobs(chan, last'.name) : e.ok)
       => /\ last'.res = "ok"
          /\ \E e \in ActiveBlobs(chan, last'.name) :
               work'[last'.name].t # "none" /\ work'[last'.name].data = e.data]_vars

\* C17: link(), unlink() and update() of an encrypted entry whose name has an
\* active blob in the channel leave an active blob for that name, and so does
\* a completed init().
C17_BlobSurvives ==
    [][/\ (/\ last'.op \in {"link", "unlink", "update"}
           /\ Target0.enc
           /\ ActiveBlobs(chan, last'.name) # {})
          => ActiveBlobs(chan', last'.name) # {}
       /\ (last'.op = "init" /\ last'.flag /\ last'.res = "ok")
          => ActiveBlobs(chan', last'.name) # {}]_vars

\* C18: a scan leaves the symlink of every correctly linked entry of the
\* channel in place.
C18_ScanFrame ==
    [][(last'.op = "scan")
       => \A e \in chan :
            LET o == create_obj(FS, e.fn, now).o IN
            (NSeg(e.fn) \in {1, 5} /\ Linked(FS, o))
               => home'[o.name] = home[o.name]]_vars

\* C19: from a state with no working copy and no symlink at link_path, a
\* link(), unlink() or update() of an encrypted entry, completed or failed,
\* and the construction of one, end with a working copy on disk iff link_path
\* is a symlink that resolves to it.
C19_WorkingCopyIffLinked ==
    [][(/\ \/ last'.op \in {"link", "unlink", "update"} /\ Target0.enc
           \/ last'.op = "create_obj" /\ last'.flag
        /\ work[last'.name].t = "none"
        /\ home[last'.name].t # "link")
       => (work'[last'.name].t # "none" <=> home'[last'.name] = Link("work"))]_vars

\* C20: constructing the Channel succeeds, and its conflicts collection holds
\* exactly the blobs of the channel that carry the conflict marker, no plain
\* or active entry, newest version timestamp first.
C20_ConflictsCollection ==
    [][(last'.op = "scan")
       => /\ last'.res = "ok"
          /\ {conflicts'[i].blob : i \in DOMAIN conflicts'} = FileNames(conflict_files(chan))
          /\ Len(conflicts') = Cardinality(conflict_files(chan))
          /\ \A i \in DOMAIN conflicts' : IsConflict(conflicts'[i])
          /\ \A i, j \in DOMAIN conflicts' :
               i < j => conflicts'[i].ts >= conflicts'[j].ts]_vars

\* C21: when encrypt() has packed a directory (init of a directory as an
\* encrypted entry, update() of a directory entry) and when the directory
\* variant's decrypt() has run, whatever the result, none of the temporary
\* artifacts the call created (packed archive, scratch decrypted file, scratch
\* extraction directory) is left.
C21_TempCleanedUp ==
    [][(\/ last'.op = "decrypt" /\ Target0.dirv
        \/ last'.op = "update" /\ Target0.enc /\ Target0.dirv
        \/ last'.op = "init" /\ last'.flag /\ last'.was = "dir")
       => tmp' = {}]_vars

\* C22: after a scan no entry of the index (dotfiles or conflicts) was made
\* from a file or a directory whose name is in the exclusion list, and none
\* from a path below an excluded directory; a directory of the check set has
\* no entry itself and each tracked item in it has exactly one; every other
\* directory that is not excluded has exactly one entry.
Source(o) == IF o.enc THEN o.blob ELSE PlainName(o.name)
EntriesOf(index, fn) == {i \in DOMAIN index : Source(index[i]) = fn}
C22_ScanExclusion ==
    [][(last'.op = "scan")
       => /\ \A fn \in FileNames(chan) :
               (Blacklisted(fn) \/ Parent(fn.name) \in SCAN_DIR_BLACKLIST)
               => EntriesOf(dotfiles', fn) \cup EntriesOf(conflicts', fn) = {}
          /\ \A d \in FileNames(channel_dirs(iterdir(chan, ""))) :
               ~Blacklisted(d)
               => IF InSearchDirs(d)
                  THEN /\ EntriesOf(dotfiles', d) \cup EntriesOf(conflicts', d) = {}
                       /\ \A e \in FileNames(dotfile_files(iterdir(chan, d.name))) :
                            Cardinality(EntriesOf(dotfiles', e)) = 1
                  ELSE Cardinality(EntriesOf(dotfiles', d))
                       + Cardinality(EntriesOf(conflicts', d)) = 1]_vars

====
